---- MODULE Spec2Model ----
(***************************************************************************)
(* Realtime voice session engine of Desktop-AI: the push-to-talk turn      *)
(* controllers (pi-realtime.py main loop, mac-realtime.py PushToTalk), the *)
(* RealtimeClient protocol session (realtime_client.py), the playback      *)
(* controllers (MacAudioPlayer, play_pcm16_audio, main.py play_audio) and  *)
(* the record-then-send loop of main.py.                                   *)
(*                                                                         *)
(* Time is counted in quarter seconds, so the 0.5 s hold threshold is 2.   *)
(***************************************************************************)
EXTENDS Integers, Sequences, FiniteSets, TLC

VARIABLES
    variant,          \* the program modelled: "pi", "mac", "client", "main", "buffered",
                      \* "streaming", "manager"
    phase,            \* position of the program's main: "init", "running"
    ws,               \* RealtimeClient.ws: "none" or "app" (a WebSocketApp)
    sock,             \* transport under ws: "none", "connecting", "open", "closed"
    button,           \* the physical talk signal (button down / space bar down)
    button_was_down,  \* pi-realtime main: button_was_down
    space_held,       \* PushToTalk.space_held
    recording,        \* PushToTalk.recording; StreamingAudioInput.running
    stream,           \* capture stream: "none", "active", "closed"
    t0,               \* start timestamp; 0 stands for None
    now,              \* time.time(), in quarter seconds
    episode,          \* number of capture episodes started so far
    nframes,          \* frames delivered to the capture callback in this episode
    log,              \* effects in order: events sent on the wire and device operations
    input_modality,   \* RealtimeClient.input_modality
    output_modality,  \* RealtimeClient.output_modality
    audio_playback_func, \* RealtimeClient.audio_playback_func: "none" or the function configured
    audio_buffer,     \* RealtimeClient.audio_buffer: decoded response audio, chunk by chunk
    inbound,          \* server messages read from the socket and not yet dispatched
    received,         \* inbound events handled so far, in order
    surfaced,         \* texts printed by the latest handle_event call
    playback_calls,   \* payloads handed to audio_playback_func, in order
    raised,           \* the latest handle_event call raised
    audio_queue,      \* MacAudioPlayer.audio_queue: payloads waiting for the worker
    is_playing,       \* MacAudioPlayer.is_playing
    worker,           \* MacAudioPlayer.audio_thread and where it is: "none" (no thread
                      \* yet), "loop", "get", "write" (alive), "exited" (finished)
    worker_item,      \* the payload the worker writes to the output stream, 0 if none
    played,           \* payloads written to the output device in full, in order
    play_pc,          \* the thread inside play_audio: "idle", "check", "start"
    stop_pc,          \* the thread inside stop: "idle", "join", "clear"
    stop_mark,        \* payloads enqueued when the latest stop() was entered
    n_payloads,       \* payloads passed to play_audio so far
    pi_threads,       \* play_pcm16_audio playback threads: "prep", "aplay", "done"
    speaker,          \* the amplifier gate (SPEAKER_SHUTDOWN_PIN high)
    frames,           \* the audio accumulator: main.py recording (the list),
                      \* BufferedAudioInput.frames; a frame is the episode it was captured in
    saved,            \* audio written out at the end of a capture, one entry per turn,
                      \* with how far the turn got
    playback_process, \* main.py playback_process: "none", "running", "exited"
    messages,         \* ConversationManager.messages, as the sequence of roles
    api_call,         \* the latest operation called by the owner on the client or on
                      \* the audio input object, and whether it returned True
    orphans,          \* WebSocketApp objects that were open when connect_websocket
                      \* replaced them in self.ws and are open still
    session,          \* RealtimeManager.session: 0 stands for None, k for the k-th
                      \* object the remote create call returned
    session_id,       \* RealtimeManager.session_id: 0 stands for None
    rm_is_connected,  \* RealtimeManager.is_connected
    remote_calls,     \* calls RealtimeManager made on the remote service, in order
    reasserted        \* the talk signal was delivered again while the controller
                      \* held it (key auto-repeat, a later poll reading it down)

pttVars == <<variant, phase, ws, sock, button, button_was_down, space_held,
             recording, stream, t0, now, episode, nframes, log>>

clientVars == <<input_modality, output_modality, audio_playback_func, audio_buffer,
                inbound, received, surfaced, playback_calls, raised>>

playerVars == <<audio_queue, is_playing, worker, worker_item, played, play_pc,
                stop_pc, stop_mark, n_payloads>>

piPlayVars == <<pi_threads, speaker>>

recordVars == <<frames, saved, playback_process, messages>>

apiVars == <<api_call, orphans>>

managerVars == <<session, session_id, rm_is_connected, remote_calls>>

vars == <<pttVars, clientVars, playerVars, piPlayVars, recordVars, apiVars,
          managerVars, reasserted>>

(* What the turn controllers, the capture callbacks and the transport     *)
(* never touch.                                                            *)
PttFrame == UNCHANGED <<clientVars, playerVars, piPlayVars, recordVars, apiVars,
                        managerVars, reasserted>>

(* The same for the handlers that take the talk signal *)
HoldFrame == UNCHANGED <<clientVars, playerVars, piPlayVars, recordVars, apiVars,
                         managerVars>>

----------------------------------------------------------------------------
(* Bounds of the model *)

MaxEpisodes == 2
MaxFrames == 2
MaxHold == 3

(* held_time > 0.5 : half a second is two quarter seconds *)
MIN_HOLD == 2

----------------------------------------------------------------------------
(* Sequences and sets *)

Last(q) == q[Len(q)]

Front(q) == SubSeq(q, 1, Len(q) - 1)

Min(S) == CHOOSE x \in S : \A y \in S : x <= y

(* Effects *)

(* modalities requested when create_response is given none *)
DefaultModalities ==
    IF output_modality = "audio" THEN <<"text", "audio">> ELSE <<"text">>

(* An effect: its type, the capture episode it belongs to, and for a      *)
(* response.create the modalities it requests                             *)
Ev(type, ep) == [type |-> type, ep |-> ep,
                 arg |-> IF type = "response.create" THEN DefaultModalities ELSE <<>>]

WireTypes == {"input_audio_buffer.clear", "input_audio_buffer.append",
              "input_audio_buffer.commit", "response.create",
              "conversation.item.create"}

RECURSIVE Wire(_)
Wire(l) == IF l = <<>> THEN <<>>
           ELSE IF Head(l).type \in WireTypes THEN <<Head(l)>> \o Wire(Tail(l))
           ELSE Wire(Tail(l))

(* Mutation: a closed transport is connected again without being asked. *)
SockSucc_reconnects(s) == CASE s = "connecting" -> {"open", "closed"}
                            [] s = "open" -> {"closed"}
                            [] s = "closed" -> {"connecting"}
                            [] OTHER -> {}

(* The transport only moves forward: nothing reconnects a WebSocketApp. *)
SockSucc(s) == CASE s = "connecting" -> {"open", "closed"}
                 [] s = "open" -> {"closed"}
                 [] OTHER -> {}

----------------------------------------------------------------------------
(* RealtimeClient outbound operations.  Each takes the effect log so far  *)
(* and the transport state at the time of the call, and yields the new    *)
(* log and the returned boolean.  ws.send raises on a transport that is   *)
(* not open; every operation catches that and returns False.              *)

Result(l, ok) == [log |-> l, ok |-> ok]

(* Mutation: the event goes out whatever the state of the transport. *)
SendEvent_any_transport(l, s, ev) ==
    IF ws = "none" THEN Result(l, FALSE) ELSE Result(Append(l, ev), TRUE)

(* Mutation: the event goes out although the client has no connection. *)
SendEvent_no_handle(l, s, ev) ==
    IF ws = "none" \/ s = "open" THEN Result(Append(l, ev), TRUE)
    ELSE Result(l, FALSE)

SendEvent(l, s, ev) ==
    IF ws = "none" THEN Result(l, FALSE)
    ELSE IF s = "open" THEN Result(Append(l, ev), TRUE)
    ELSE Result(l, FALSE)

append_audio_buffer(l, s, ep) == SendEvent(l, s, Ev("input_audio_buffer.append", ep))

commit_audio_buffer(l, s, ep) == SendEvent(l, s, Ev("input_audio_buffer.commit", ep))

(* Mutation: the clear event is never put on the wire. *)
clear_audio_buffer_unsent(l, s, ep) == Result(l, FALSE)

clear_audio_buffer(l, s, ep) == SendEvent(l, s, Ev("input_audio_buffer.clear", ep))

create_response(l, s, ep) == SendEvent(l, s, Ev("response.create", ep))

(* hasattr(client, 'is_connected'): the RealtimeClient of realtime_client.py *)
(* defines no such attribute; pi-realtime.py reads it unguarded and runs   *)
(* on a client that has it                                                  *)
has_is_connected == variant = "pi"

(* client.is_connected, read by the pi-realtime capture callback *)
is_connected == ws # "none" /\ sock = "open"

----------------------------------------------------------------------------
(* Program start and transport *)

connect_websocket ==
    /\ phase = "init"
    /\ ws' = "app"
    /\ sock' = "connecting"
    /\ phase' = "running"
    /\ UNCHANGED <<variant, button, button_was_down, space_held, recording,
                   stream, t0, now, episode, nframes, log>>
    /\ PttFrame

SockChange ==
    /\ phase = "running"
    /\ \E s \in SockSucc(sock) : sock' = s
    /\ UNCHANGED <<variant, phase, ws, button, button_was_down, space_held,
                   recording, stream, t0, now, episode, nframes, log>>
    /\ PttFrame

Tick ==
    /\ button
    /\ stream = "active"
    /\ now - t0 < MaxHold
    /\ now' = now + 1
    /\ UNCHANGED <<variant, phase, ws, sock, button, button_was_down, space_held,
                   recording, stream, t0, episode, nframes, log>>
    /\ PttFrame

----------------------------------------------------------------------------
(* Hold duration and the commit decision of both controllers *)

held_time == IF t0 # 0 THEN now - t0 ELSE 0

(* Mutation: the comparison against the threshold reversed. *)
ShouldCommit_reversed == held_time < MIN_HOLD

ShouldCommit == held_time > MIN_HOLD

(* Mutation: the response requested before the buffer is committed. *)
ReleaseSends_swapped(l, s1, s2) ==
    IF ShouldCommit
    THEN commit_audio_buffer(create_response(l, s1, episode).log, s2, episode).log
    ELSE l

(* Release: commit and request a response, or ignore a short press.  The  *)
(* transport may change between the two sends.                            *)
ReleaseSends(l, s1, s2) ==
    IF ShouldCommit
    THEN create_response(commit_audio_buffer(l, s1, episode).log, s2, episode).log
    ELSE l

----------------------------------------------------------------------------
(* mac-realtime.py PushToTalk *)

record_and_stream_cb ==
    /\ variant = "mac"
    /\ stream = "active"
    /\ nframes < MaxFrames
    /\ nframes' = nframes + 1
    /\ log' = append_audio_buffer(log, sock, episode).log
    /\ UNCHANGED <<variant, phase, ws, sock, button, button_was_down, space_held,
                   recording, stream, t0, now, episode>>
    /\ PttFrame

(* Mutation: a press is handled although the key is already held. *)
on_press_unguarded ==
    /\ space_held' = TRUE
    /\ recording' = TRUE
    /\ episode' = episode + 1
    /\ log' = Append(clear_audio_buffer(log, sock, episode + 1).log,
                     Ev("capture.start", episode + 1))
    /\ stream' = "active"
    /\ t0' = now
    /\ nframes' = 0
    /\ UNCHANGED sock

on_press ==
    IF ~space_held
    THEN /\ space_held' = TRUE
         /\ recording' = TRUE
         /\ episode' = episode + 1
         /\ log' = Append(clear_audio_buffer(log, sock, episode + 1).log,
                          Ev("capture.start", episode + 1))
         /\ stream' = "active"
         /\ t0' = now
         /\ nframes' = 0
         /\ UNCHANGED sock
    ELSE UNCHANGED <<space_held, recording, episode, log, stream, t0, nframes, sock>>

(* Mutation: the release sends without stopping the capture stream. *)
on_release_keeps_stream ==
    IF space_held
    THEN /\ space_held' = FALSE
         /\ recording' = FALSE
         /\ stream' = stream
         /\ \E s2 \in {sock} \cup SockSucc(sock) :
              /\ sock' = s2
              /\ log' = ReleaseSends(log, sock, s2)
         /\ UNCHANGED <<episode, t0, nframes>>
    ELSE UNCHANGED <<space_held, recording, episode, log, stream, t0, nframes, sock>>

on_release ==
    IF space_held
    THEN /\ space_held' = FALSE
         /\ recording' = FALSE
         /\ stream' = IF stream # "none" THEN "closed" ELSE stream
         /\ \E s2 \in {sock} \cup SockSucc(sock) :
              /\ sock' = s2
              /\ log' = ReleaseSends(
                          IF stream # "none"
                          THEN Append(log, Ev("capture.stop", episode)) ELSE log,
                          sock, s2)
         /\ UNCHANGED <<episode, t0, nframes>>
    ELSE UNCHANGED <<space_held, recording, episode, log, stream, t0, nframes, sock>>

MacKeyDown ==
    /\ variant = "mac" /\ phase = "running"
    /\ ~button
    /\ episode < MaxEpisodes
    /\ button' = TRUE
    /\ on_press
    /\ UNCHANGED <<variant, phase, ws, button_was_down, now>>
    /\ PttFrame

MacKeyRepeat ==
    /\ variant = "mac" /\ phase = "running"
    /\ button
    /\ on_press
    /\ reasserted' = TRUE
    /\ UNCHANGED <<variant, phase, ws, button, button_was_down, now>>
    /\ HoldFrame

MacKeyUp ==
    /\ variant = "mac" /\ phase = "running"
    /\ button
    /\ button' = FALSE
    /\ on_release
    /\ UNCHANGED <<variant, phase, ws, button_was_down, now>>
    /\ PttFrame

----------------------------------------------------------------------------
(* pi-realtime.py main loop *)

pi_callback ==
    /\ variant = "pi"
    /\ stream = "active"
    /\ nframes < MaxFrames
    /\ nframes' = nframes + 1
    /\ log' = IF has_is_connected /\ is_connected
              THEN append_audio_buffer(log, sock, episode).log ELSE log
    /\ UNCHANGED <<variant, phase, ws, sock, button, button_was_down, space_held,
                   recording, stream, t0, now, episode>>
    /\ PttFrame

PiButton ==
    /\ variant = "pi" /\ phase = "running"
    /\ button \/ episode < MaxEpisodes
    /\ button' = ~button
    /\ UNCHANGED <<variant, phase, ws, sock, button_was_down, space_held, recording,
                   stream, t0, now, episode, nframes, log>>
    /\ PttFrame

(* Mutation: the press branch is taken on every poll that reads the button down. *)
PiLoopPress_every_poll ==
    /\ button
    /\ episode' = episode + 1
    /\ log' = Append(clear_audio_buffer(log, sock, episode + 1).log,
                     Ev("capture.start", episode + 1))
    /\ stream' = "active"
    /\ t0' = now
    /\ nframes' = 0
    /\ button_was_down' = button
    /\ UNCHANGED sock

PiLoopPress ==
    /\ button /\ ~button_was_down
    /\ episode' = episode + 1
    /\ log' = Append(clear_audio_buffer(log, sock, episode + 1).log,
                     Ev("capture.start", episode + 1))
    /\ stream' = "active"
    /\ t0' = now
    /\ nframes' = 0
    /\ button_was_down' = button
    /\ UNCHANGED sock

(* Mutation: the release leaves the capture stream as it is. *)
PiLoopRelease_keeps_stream ==
    /\ ~button /\ button_was_down
    /\ stream' = stream
    /\ \E s2 \in {sock} \cup SockSucc(sock) :
         /\ sock' = s2
         /\ log' = ReleaseSends(log, sock, s2)
    /\ button_was_down' = button
    /\ UNCHANGED <<episode, t0, nframes>>

PiLoopRelease ==
    /\ ~button /\ button_was_down
    /\ stream' = "none"
    /\ \E s2 \in {sock} \cup SockSucc(sock) :
         /\ sock' = s2
         /\ log' = ReleaseSends(
                     IF stream # "none"
                     THEN Append(log, Ev("capture.stop", episode)) ELSE log,
                     sock, s2)
    /\ button_was_down' = button
    /\ UNCHANGED <<episode, t0, nframes>>

(* neither branch: the button is still read as down *)
PiLoopHeld ==
    /\ button /\ button_was_down
    /\ button_was_down' = button
    /\ UNCHANGED <<episode, log, stream, t0, nframes, sock>>

PiLoop ==
    /\ variant = "pi" /\ phase = "running"
    /\ \/ PiLoopPress /\ UNCHANGED reasserted
       \/ PiLoopRelease /\ UNCHANGED reasserted
       \/ PiLoopHeld /\ reasserted' = TRUE
    /\ UNCHANGED <<variant, phase, ws, button, space_held, recording, now>>
    /\ HoldFrame

----------------------------------------------------------------------------

PttInit ==
    /\ phase = "init"
    /\ ws = "none"
    /\ sock = "none"
    /\ button = FALSE
    /\ button_was_down = FALSE
    /\ space_held = FALSE
    /\ recording = FALSE
    /\ stream = "none"
    /\ t0 = 0
    /\ now = 1
    /\ episode = 0
    /\ nframes = 0
    /\ log = <<>>
    /\ reasserted = FALSE

PlayerInit ==
    /\ audio_queue = <<>>
    /\ is_playing = FALSE
    /\ worker = "none"
    /\ worker_item = 0
    /\ played = <<>>
    /\ play_pc = "idle"
    /\ stop_pc = "idle"
    /\ stop_mark = 0
    /\ n_payloads = 0
    /\ pi_threads = <<>>
    /\ speaker = FALSE

(* The record-then-send state of a program that does no recording *)
RecordInit ==
    /\ frames = <<>>
    /\ saved = <<>>
    /\ playback_process = "none"
    /\ messages = <<"system">>

(* RealtimeManager.__init__ *)
ManagerInit ==
    /\ session = 0
    /\ session_id = 0
    /\ rm_is_connected = FALSE
    /\ remote_calls = <<>>

(* no outbound operation called yet *)
ApiInit ==
    /\ api_call = [op |-> "none", ok |-> FALSE, n |-> 0]
    /\ orphans = 0

ClientInit ==
    /\ PlayerInit
    /\ RecordInit
    /\ ApiInit
    /\ ManagerInit
    /\ audio_buffer = <<>>
    /\ inbound = <<>>
    /\ received = <<>>
    /\ surfaced = <<>>
    /\ playback_calls = <<>>
    /\ raised = FALSE

(* The push-to-talk programs: both construct the client with audio input  *)
(* and audio output and a playback function.                              *)
Init ==
    /\ variant \in {"pi", "mac"}
    /\ PttInit
    /\ input_modality = "audio"
    /\ output_modality = "audio"
    /\ audio_playback_func = "func"
    /\ ClientInit

Next ==
    \/ connect_websocket
    \/ SockChange
    \/ Tick
    \/ record_and_stream_cb
    \/ MacKeyDown
    \/ MacKeyRepeat
    \/ MacKeyUp
    \/ pi_callback
    \/ PiButton
    \/ PiLoop

Spec == Init /\ [][Next]_vars

----------------------------------------------------------------------------
(* RealtimeClient.handle_event: inbound events *)

MaxItems == 2
MaxContent == 2
MaxEvents == 3

SeqsUpTo(S, n) == UNION {[1..k -> S] : k \in 0..n}

ContentItems == {[type |-> "text", text |-> "a"], [type |-> "text", text |-> ""],
                 [type |-> "output_text", text |-> "b"]}

OutputItems ==
    {[type |-> "message", role |-> "assistant", content |-> c] :
        c \in SeqsUpTo(ContentItems, MaxContent)}
    \cup {[type |-> "message", role |-> "user",
           content |-> <<[type |-> "text", text |-> "a"]>>],
          [type |-> "function_call", role |-> "assistant", content |-> <<>>]}

InEv(type, delta, output) == [type |-> type, delta |-> delta, output |-> output]

(* Every response.done up to the bounds *)
DoneEvents == {InEv("response.done", "absent", o) : o \in SeqsUpTo(OutputItems, MaxItems)}

TextOnlyOutput == <<[type |-> "message", role |-> "assistant",
                     content |-> <<[type |-> "text", text |-> "a"]>>]>>

(* A delta payload is a chunk ("c1", "c2": valid base64 of non-empty      *)
(* audio), "" (empty), "badpad" (base64 that b64decode rejects) or        *)
(* "absent" (the event has no delta field).                               *)
DeltaPayloads == {"c1", "c2", "", "badpad", "absent"}

KnownTypes == {"response.done", "response.audio.delta", "conversation.item.create",
               "response.create", "error"}

(* Event kinds the dispatcher has no branch for; "none" is an event       *)
(* without a type field.                                                   *)
UnknownTypes == {"session.created", "none"}

StreamEvents ==
    {InEv("response.done", "absent", <<>>), InEv("response.done", "absent", TextOnlyOutput)}
    \cup {InEv("response.audio.delta", d, <<>>) : d \in DeltaPayloads}
    \cup {InEv(t, "absent", <<>>) :
            t \in {"conversation.item.create", "response.create", "error"} \cup UnknownTypes}

(* Mutation: the content item looked for is of type output_text. *)
RECURSIVE FirstText_output_text(_)
FirstText_output_text(content) ==
    IF content = <<>> THEN <<>>
    ELSE IF Head(content).type = "output_text"
         THEN (IF Head(content).text # "" THEN <<Head(content).text>> ELSE <<>>)
         ELSE FirstText_output_text(Tail(content))

(* for content_item in content: if type == "text": print if non-empty; break *)
RECURSIVE FirstText(_)
FirstText(content) ==
    IF content = <<>> THEN <<>>
    ELSE IF Head(content).type = "text"
         THEN (IF Head(content).text # "" THEN <<Head(content).text>> ELSE <<>>)
         ELSE FirstText(Tail(content))

(* for item in output: if message of the assistant: ... *)
RECURSIVE ExtractText(_)
ExtractText(output) ==
    IF output = <<>> THEN <<>>
    ELSE (IF Head(output).type = "message" /\ Head(output).role = "assistant"
          THEN FirstText(Head(output).content) ELSE <<>>)
         \o ExtractText(Tail(output))

(* The condition under which response.done hands the buffer to playback *)
PlaysOnDone ==
    output_modality = "audio" /\ audio_buffer # <<>> /\ audio_playback_func # "none"

(* Mutation: the buffer is kept after it was handed to playback. *)
on_response_done_keeps_buffer(e) ==
    /\ surfaced' = ExtractText(e.output)
    /\ raised' = FALSE
    /\ IF PlaysOnDone
       THEN /\ \E failed \in BOOLEAN :
                 playback_calls' = Append(playback_calls,
                                          [audio |-> audio_buffer, failed |-> failed])
            /\ UNCHANGED audio_buffer
       ELSE UNCHANGED <<playback_calls, audio_buffer>>

on_response_done(e) ==
    /\ surfaced' = ExtractText(e.output)
    /\ raised' = FALSE
    /\ IF PlaysOnDone
       THEN /\ \E failed \in BOOLEAN :
                 playback_calls' = Append(playback_calls,
                                          [audio |-> audio_buffer, failed |-> failed])
            /\ audio_buffer' = <<>>
       ELSE UNCHANGED <<playback_calls, audio_buffer>>

(* Mutation: a delta that does not decode empties the buffer. *)
on_audio_delta_resets_on_bad(e) ==
    /\ surfaced' = <<>>
    /\ UNCHANGED playback_calls
    /\ IF output_modality = "audio"
       THEN IF e.delta = "absent"
            THEN raised' = TRUE /\ UNCHANGED audio_buffer
            ELSE /\ raised' = FALSE
                 /\ audio_buffer' = IF e.delta = "" THEN audio_buffer
                                    ELSE IF e.delta = "badpad" THEN <<>>
                                    ELSE Append(audio_buffer, e.delta)
       ELSE raised' = FALSE /\ UNCHANGED audio_buffer

(* Mutation: deltas are accumulated whatever the output modality. *)
on_audio_delta_any_modality(e) ==
    /\ surfaced' = <<>>
    /\ UNCHANGED playback_calls
    /\ IF e.delta = "absent"
       THEN raised' = TRUE /\ UNCHANGED audio_buffer
       ELSE /\ raised' = FALSE
            /\ audio_buffer' = IF e.delta \in {"", "badpad"} THEN audio_buffer
                               ELSE Append(audio_buffer, e.delta)

on_audio_delta(e) ==
    /\ surfaced' = <<>>
    /\ UNCHANGED playback_calls
    /\ IF output_modality = "audio"
       THEN IF e.delta = "absent"
            THEN raised' = TRUE /\ UNCHANGED audio_buffer
            ELSE /\ raised' = FALSE
                 /\ audio_buffer' = IF e.delta \in {"", "badpad"} THEN audio_buffer
                                    ELSE Append(audio_buffer, e.delta)
       ELSE raised' = FALSE /\ UNCHANGED audio_buffer

(* conversation.item.create, response.create and error are only logged *)
on_logged_event(e) ==
    /\ surfaced' = <<>>
    /\ raised' = FALSE
    /\ UNCHANGED <<playback_calls, audio_buffer>>

(* Mutation: an event kind without a branch is rejected with an exception. *)
on_unknown_event_raises(e) ==
    /\ surfaced' = <<>>
    /\ raised' = TRUE
    /\ UNCHANGED <<playback_calls, audio_buffer>>

on_unknown_event(e) ==
    /\ surfaced' = <<>>
    /\ raised' = FALSE
    /\ UNCHANGED <<playback_calls, audio_buffer>>

handle_event(e) ==
    /\ received' = Append(received, e)
    /\ CASE e.type = "response.done" -> on_response_done(e)
         [] e.type = "response.audio.delta" -> on_audio_delta(e)
         [] e.type \in {"conversation.item.create", "response.create", "error"} ->
              on_logged_event(e)
         [] OTHER -> on_unknown_event(e)
    /\ UNCHANGED <<input_modality, output_modality, audio_playback_func>>

(* The receive loop dispatches one message of an arbitrary stream *)
Receive ==
    /\ ws # "none" /\ sock = "open"
    /\ Len(received) < MaxEvents
    /\ \E e \in StreamEvents : handle_event(e)
    /\ UNCHANGED <<pttVars, inbound, playerVars, piPlayVars, recordVars, apiVars,
                   managerVars, reasserted>>

(* The receive loop dispatches the message waiting on the socket *)
Dispatch ==
    /\ inbound # <<>>
    /\ handle_event(Head(inbound))
    /\ inbound' = Tail(inbound)
    /\ UNCHANGED <<pttVars, playerVars, piPlayVars, recordVars, apiVars,
                   managerVars, reasserted>>

(* A client of any configuration with its connection set up, fed an       *)
(* arbitrary stream of inbound events.                                     *)
EventsInit ==
    /\ variant = "client"
    /\ PttInit
    /\ input_modality = "audio"
    /\ output_modality \in {"text", "audio"}
    /\ audio_playback_func \in {"none", "func"}
    /\ ClientInit

EventsNext ==
    \/ connect_websocket
    \/ SockChange
    \/ Receive

SpecEvents == EventsInit /\ [][EventsNext]_vars

(* A client of any configuration about to dispatch one response.done *)
TextInit ==
    /\ variant = "client"
    /\ PttInit
    /\ input_modality = "text"
    /\ output_modality \in {"text", "audio"}
    /\ audio_playback_func = "func"
    /\ audio_buffer = <<>>
    /\ PlayerInit
    /\ RecordInit
    /\ ApiInit
    /\ ManagerInit
    /\ inbound \in {<<e>> : e \in DoneEvents}
    /\ received = <<>>
    /\ surfaced = <<>>
    /\ playback_calls = <<>>
    /\ raised = FALSE

TextNext == Dispatch

SpecText == TextInit /\ [][TextNext]_vars

----------------------------------------------------------------------------
(* RealtimeClient driven through its public operations: the owner calls   *)
(* any outbound operation, close_websocket or a new connect_websocket at  *)
(* any time, while the transport opens and closes underneath.             *)

MaxSent == 3
MaxOrphans == 2

(* create_response(modalities): None, or an explicit list *)
NoneArg == <<"None">>

ModalitiesArgs == {NoneArg, <<"text">>, <<"audio">>, <<"text", "audio">>, <<>>}

OutboundOps == {"send_text_message", "send_audio_message", "create_response",
                "append_audio_buffer", "commit_audio_buffer", "clear_audio_buffer"}

(* the call just made and what it returned; n tells consecutive calls apart *)
Called(op, ok) == [op |-> op, ok |-> ok, n |-> 1 - api_call.n]

SessionFrame == UNCHANGED <<variant, phase, button, button_was_down, space_held,
                            recording, stream, t0, now, episode, nframes,
                            clientVars, playerVars, piPlayVars, recordVars,
                            managerVars, reasserted>>

ApiFrame == SessionFrame /\ UNCHANGED orphans

(* create_response with its modalities argument *)
create_response_modalities(l, s, ep, modalities) ==
    SendEvent(l, s, [Ev("response.create", ep) EXCEPT
                       !.arg = IF modalities = NoneArg THEN DefaultModalities
                               ELSE modalities])

(* Mutation: a message of either modality is accepted. *)
ModalityAllows_any(modality) == TRUE

(* if self.input_modality != "text" (resp. "audio"): return False *)
ModalityAllows(modality) == input_modality = modality

(* send_text_message / send_audio_message: the item is sent, then         *)
(* create_response is called and its result ignored                       *)
SendMessage(op, modality, content) ==
    IF ws = "none" \/ ~ModalityAllows(modality)
    THEN /\ api_call' = Called(op, FALSE)
         /\ UNCHANGED <<log, sock>>
    ELSE LET item == SendEvent(log, sock,
                       [Ev("conversation.item.create", episode) EXCEPT
                          !.arg = <<content>>])
         IN IF item.ok
            THEN \E s2 \in {sock} \cup SockSucc(sock) :
                   /\ sock' = s2
                   /\ log' = create_response(item.log, s2, episode).log
                   /\ api_call' = Called(op, TRUE)
            ELSE /\ api_call' = Called(op, FALSE)
                 /\ UNCHANGED <<log, sock>>

send_text_message ==
    /\ variant = "client" /\ Len(log) < MaxSent
    /\ SendMessage("send_text_message", "text", "input_text")
    /\ UNCHANGED ws
    /\ ApiFrame

send_audio_message ==
    /\ variant = "client" /\ Len(log) < MaxSent
    /\ SendMessage("send_audio_message", "audio", "input_audio")
    /\ UNCHANGED ws
    /\ ApiFrame

(* an operation that sends one event and returns whether it was sent *)
ApiCall(op, result) ==
    /\ log' = result.log
    /\ api_call' = Called(op, result.ok)
    /\ UNCHANGED <<ws, sock>>

call_create_response ==
    /\ variant = "client" /\ Len(log) < MaxSent
    /\ \E m \in ModalitiesArgs :
         ApiCall("create_response",
                 create_response_modalities(log, sock, episode, m))
    /\ ApiFrame

call_append_audio_buffer ==
    /\ variant = "client" /\ Len(log) < MaxSent
    /\ ApiCall("append_audio_buffer", append_audio_buffer(log, sock, episode))
    /\ ApiFrame

call_commit_audio_buffer ==
    /\ variant = "client" /\ Len(log) < MaxSent
    /\ ApiCall("commit_audio_buffer", commit_audio_buffer(log, sock, episode))
    /\ ApiFrame

call_clear_audio_buffer ==
    /\ variant = "client" /\ Len(log) < MaxSent
    /\ ApiCall("clear_audio_buffer", clear_audio_buffer(log, sock, episode))
    /\ ApiFrame

(* close_websocket(): if self.ws: self.ws.close(); self.ws = None *)
close_websocket ==
    /\ variant = "client"
    /\ ws' = "none"
    /\ sock' = IF ws # "none" THEN "none" ELSE sock
    /\ api_call' = Called("close_websocket", FALSE)
    /\ UNCHANGED log
    /\ ApiFrame

(* connect_websocket() called again by the owner, after close_websocket *)
(* or without it: self.ws is assigned a new WebSocketApp, and the one it *)
(* held is neither closed nor kept anywhere                               *)
reconnect_websocket ==
    /\ variant = "client" /\ phase = "running"
    /\ ws' = "app"
    /\ sock' = "connecting"
    /\ IF ws # "none" /\ sock = "open"
       THEN orphans < MaxOrphans /\ orphans' = orphans + 1
       ELSE UNCHANGED orphans
    /\ api_call' = IF ws # "none" THEN Called("connect_websocket", TRUE) ELSE api_call
    /\ UNCHANGED log
    /\ SessionFrame

(* the server or the network closes a connection the client no longer holds *)
OrphanCloses ==
    /\ variant = "client"
    /\ orphans > 0
    /\ orphans' = orphans - 1
    /\ UNCHANGED <<ws, sock, log, api_call>>
    /\ SessionFrame

ApiSpecInit ==
    /\ variant = "client"
    /\ PttInit
    /\ input_modality \in {"text", "audio"}
    /\ output_modality \in {"text", "audio"}
    /\ audio_playback_func = "none"
    /\ ClientInit

ApiNext ==
    \/ connect_websocket
    \/ reconnect_websocket
    \/ SockChange
    \/ OrphanCloses
    \/ close_websocket
    \/ send_text_message
    \/ send_audio_message
    \/ call_create_response
    \/ call_append_audio_buffer
    \/ call_commit_audio_buffer
    \/ call_clear_audio_buffer

SpecApi == ApiSpecInit /\ [][ApiNext]_vars

----------------------------------------------------------------------------
(* mac-realtime.py MacAudioPlayer.  play_audio runs in the thread that    *)
(* dispatches inbound events, stop in the control thread, the worker in   *)
(* its own thread; each step below is one access to the shared fields.    *)

MaxPayloads == 3

WorkerAlive == worker \in {"loop", "get", "write"}

PlayerFrame == UNCHANGED <<pttVars, clientVars, piPlayVars, recordVars, apiVars,
                           managerVars, reasserted>>

(* self.audio_queue.put(wav_data) *)
play_audio_put(x) ==
    /\ audio_queue' = Append(audio_queue, x)
    /\ play_pc' = "check"

(* play_audio called with a new payload *)
play_audio ==
    /\ play_pc = "idle"
    /\ n_payloads < MaxPayloads
    /\ n_payloads' = n_payloads + 1
    /\ play_audio_put(n_payloads + 1)
    /\ UNCHANGED <<is_playing, worker, worker_item, played, stop_pc, stop_mark>>
    /\ PlayerFrame

(* Mutation: play_audio waits until the queue has been played out. *)
play_audio_check_waits ==
    /\ play_pc = "check"
    /\ audio_queue = <<>> /\ worker # "write"
    /\ play_pc' = IF ~is_playing THEN "start" ELSE "idle"
    /\ UNCHANGED <<audio_queue, is_playing, worker, worker_item, played, stop_pc,
                   stop_mark, n_payloads>>
    /\ PlayerFrame

(* if not self.is_playing: self._start_playback_thread() *)
play_audio_check ==
    /\ play_pc = "check"
    /\ play_pc' = IF ~is_playing THEN "start" ELSE "idle"
    /\ UNCHANGED <<audio_queue, is_playing, worker, worker_item, played, stop_pc,
                   stop_mark, n_payloads>>
    /\ PlayerFrame

(* _start_playback_thread: a thread that is still alive is kept *)
start_playback_thread ==
    /\ play_pc = "start"
    /\ play_pc' = "idle"
    /\ IF WorkerAlive
       THEN UNCHANGED <<is_playing, worker>>
       ELSE is_playing' = TRUE /\ worker' = "loop"
    /\ UNCHANGED <<audio_queue, worker_item, played, stop_pc, stop_mark, n_payloads>>
    /\ PlayerFrame

(* while self.is_playing: *)
worker_loop ==
    /\ worker = "loop"
    /\ worker' = IF is_playing THEN "get" ELSE "exited"
    /\ UNCHANGED <<audio_queue, is_playing, worker_item, played, play_pc, stop_pc,
                   stop_mark, n_payloads>>
    /\ PlayerFrame

(* wav_data = self.audio_queue.get(timeout=1), then the stream is opened *)
worker_get ==
    /\ worker = "get"
    /\ audio_queue # <<>>
    /\ worker_item' = Head(audio_queue)
    /\ audio_queue' = Tail(audio_queue)
    /\ worker' = "write"
    /\ UNCHANGED <<is_playing, played, play_pc, stop_pc, stop_mark, n_payloads>>
    /\ PlayerFrame

(* except queue.Empty: back to the loop test *)
worker_get_timeout ==
    /\ worker = "get"
    /\ audio_queue = <<>>
    /\ worker' = "loop"
    /\ UNCHANGED <<audio_queue, is_playing, worker_item, played, play_pc, stop_pc,
                   stop_mark, n_payloads>>
    /\ PlayerFrame

(* the payload is written to its end; the stream is stopped and closed *)
worker_write ==
    /\ worker = "write"
    /\ played' = Append(played, worker_item)
    /\ worker_item' = 0
    /\ worker' = "loop"
    /\ UNCHANGED <<audio_queue, is_playing, play_pc, stop_pc, stop_mark, n_payloads>>
    /\ PlayerFrame

(* except Exception: break -- opening the stream or writing to it raised; *)
(* the thread ends, is_playing stays as it is and the payload is lost     *)
worker_error ==
    /\ worker = "write"
    /\ worker' = "exited"
    /\ UNCHANGED <<audio_queue, is_playing, worker_item, played, play_pc, stop_pc,
                   stop_mark, n_payloads>>
    /\ PlayerFrame

(* stop(): self.is_playing = False *)
stop_begin ==
    /\ stop_pc = "idle"
    /\ is_playing' = FALSE
    /\ stop_mark' = n_payloads
    /\ stop_pc' = "join"
    /\ UNCHANGED <<audio_queue, worker, worker_item, played, play_pc, n_payloads>>
    /\ PlayerFrame

(* self.audio_thread.join(timeout=1): returns when the thread has ended,  *)
(* or after one second, which a worker writing a payload outlasts.        *)
stop_join ==
    /\ stop_pc = "join"
    /\ worker \in {"none", "exited", "write"}
    /\ stop_pc' = "clear"
    /\ UNCHANGED <<audio_queue, is_playing, worker, worker_item, played, play_pc,
                   stop_mark, n_payloads>>
    /\ PlayerFrame

(* the queue is emptied, stop returns *)
stop_clear ==
    /\ stop_pc = "clear"
    /\ audio_queue' = <<>>
    /\ stop_pc' = "idle"
    /\ UNCHANGED <<is_playing, worker, worker_item, played, play_pc, stop_mark,
                   n_payloads>>
    /\ PlayerFrame

(* A MacAudioPlayer whose play_audio and stop are called at any time *)
PlayerSpecInit ==
    /\ variant = "mac"
    /\ PttInit
    /\ input_modality = "audio"
    /\ output_modality = "audio"
    /\ audio_playback_func = "func"
    /\ ClientInit

PlayerNext ==
    \/ play_audio
    \/ play_audio_check
    \/ start_playback_thread
    \/ worker_loop
    \/ worker_get
    \/ worker_get_timeout
    \/ worker_write
    \/ worker_error
    \/ stop_begin
    \/ stop_join
    \/ stop_clear

SpecPlayer == PlayerSpecInit /\ [][PlayerNext]_vars

(* every thread that can take a step takes it in the end; the calls of   *)
(* play_audio and stop, and the errors, are up to the environment         *)
PlayerFairness ==
    /\ WF_vars(play_audio_check) /\ WF_vars(start_playback_thread)
    /\ WF_vars(worker_loop) /\ WF_vars(worker_get) /\ WF_vars(worker_get_timeout)
    /\ WF_vars(worker_write)
    /\ WF_vars(stop_join) /\ WF_vars(stop_clear)

SpecPlayerLive == SpecPlayer /\ PlayerFairness

(* nothing is being played and nothing waits to be played *)
NoPlaybackActive == audio_queue = <<>> /\ worker # "write" /\ play_pc = "idle"

(* stop() called by an owner that calls it only while no playback is active *)
stop_when_idle ==
    /\ NoPlaybackActive
    /\ stop_begin

(* A MacAudioPlayer that is stopped only while it plays nothing *)
IdleStopNext ==
    \/ play_audio
    \/ play_audio_check
    \/ start_playback_thread
    \/ worker_loop
    \/ worker_get
    \/ worker_get_timeout
    \/ worker_write
    \/ stop_when_idle
    \/ stop_join
    \/ stop_clear

SpecIdleStop == PlayerSpecInit /\ [][IdleStopNext]_vars

----------------------------------------------------------------------------
(* pi-realtime.py play_pcm16_audio: one playback thread per payload *)

PiPlayFrame == UNCHANGED <<pttVars, clientVars, playerVars, recordVars, apiVars,
                           managerVars, reasserted>>

(* the wav file is written, the speaker enabled and aplay launched *)
pi_playback_start ==
    /\ \E i \in DOMAIN pi_threads :
         /\ pi_threads[i] = "prep"
         /\ pi_threads' = [pi_threads EXCEPT ![i] = "aplay"]
    /\ speaker' = TRUE
    /\ PiPlayFrame

(* proc.wait() returns; finally: hardware.disable_speaker() *)
pi_playback_end ==
    /\ \E i \in DOMAIN pi_threads :
         /\ pi_threads[i] = "aplay"
         /\ pi_threads' = [pi_threads EXCEPT ![i] = "done"]
    /\ speaker' = FALSE
    /\ PiPlayFrame

----------------------------------------------------------------------------
(* The push-to-talk programs with the remote answering: the events of a   *)
(* response arrive after a response.create was sent, and response.done    *)
(* hands the audio to the playback function of the program.               *)

MaxResponseEvents == 4

ResponseEvents == {InEv("response.audio.delta", "c1", <<>>),
                   InEv("response.done", "absent", TextOnlyOutput)}

CountType(q, t) == Cardinality({i \in 1..Len(q) : q[i].type = t})

Responding == CountType(received, "response.done") < CountType(log, "response.create")

ReceiveResponse ==
    /\ variant \in {"pi", "mac"}
    /\ ws # "none" /\ sock = "open"
    /\ play_pc = "idle"
    /\ Len(received) < MaxResponseEvents
    /\ Responding
    /\ \E e \in ResponseEvents : handle_event(e)
    /\ IF Len(playback_calls') > Len(playback_calls)
       THEN /\ ~Last(playback_calls').failed
            /\ IF variant = "mac"
               THEN /\ n_payloads' = n_payloads + 1
                    /\ play_audio_put(n_payloads + 1)
                    /\ UNCHANGED <<is_playing, worker, worker_item, played, stop_pc,
                                   stop_mark, piPlayVars>>
               ELSE /\ pi_threads' = Append(pi_threads, "prep")
                    /\ UNCHANGED <<speaker, playerVars>>
       ELSE UNCHANGED <<playerVars, piPlayVars>>
    /\ UNCHANGED <<pttVars, inbound, recordVars, apiVars,
                   managerVars, reasserted>>

BargeInNext ==
    \/ connect_websocket
    \/ SockChange
    \/ Tick
    \/ record_and_stream_cb
    \/ MacKeyDown
    \/ MacKeyRepeat
    \/ MacKeyUp
    \/ pi_callback
    \/ PiButton
    \/ PiLoop
    \/ ReceiveResponse
    \/ play_audio_check
    \/ start_playback_thread
    \/ worker_loop
    \/ worker_get
    \/ worker_get_timeout
    \/ worker_write
    \/ pi_playback_start
    \/ pi_playback_end

SpecBargeIn == Init /\ [][BargeInNext]_vars

----------------------------------------------------------------------------
(* main.py: record while the button is down, then transcribe, generate,   *)
(* synthesise and play.  One action is one iteration of the while loop.   *)

(* the playback process and the amplifier gate, as play_audio and         *)
(* stop_audio_playback see and leave them                                  *)
Playback(pp, spk) == [pp |-> pp, spk |-> spk]

(* stop_audio_playback(): a process that is still running is terminated   *)
(* (killed after 0.5 s) and the speaker is turned off                      *)
stop_audio_playback(st) ==
    IF st.pp = "running" THEN Playback("none", FALSE) ELSE st

(* play_audio(filename): stop what plays, enable the speaker, launch aplay *)
main_play_audio(st, launched) ==
    LET stopped == stop_audio_playback(st)
    IN IF launched THEN [stopped EXCEPT !.pp = "running", !.spk = TRUE]
       ELSE [stopped EXCEPT !.pp = "none", !.spk = FALSE]

(* if playback_process and playback_process.poll() is not None *)
playback_finished(st) ==
    IF st.pp = "exited" THEN Playback("none", FALSE) ELSE st

(* Mutation: the list of the previous recording is kept. *)
new_recording_kept(old) == old

(* recording = [] *)
new_recording(old) == <<>>

(* how far the turn pipeline gets: transcribe_audio, generate_response,   *)
(* generate_speech each return a falsy value on failure                    *)
TurnOutcomes == {"no_transcription", "no_response", "no_speech", "played"}

(* what client.responses.create gives: an output with assistant text, an *)
(* output without any, the MCP tool-list error 424, any other exception  *)
ResponseResults == {"text", "no_text", "mcp_424", "error"}

(* ConversationManager.generate_response on history msgs (roles): first   *)
(* is what the request gives, retry what the request repeated after the   *)
(* 424 note gives; result is "text" or "None"                             *)
generate_response(msgs, first, retry) ==
    LET noted == IF first = "mcp_424" THEN Append(msgs, "system") ELSE msgs
        final == IF first = "mcp_424" THEN retry ELSE first
    IN IF final = "text"
       THEN [messages |-> Append(noted, "assistant"), result |-> "text"]
       ELSE [messages |-> noted, result |-> "None"]

(* Mutation: speech is synthesised and played whatever generate_response gave. *)
pipeline_calls_speaks_anyway(t_ok, r_ok, s_ok) ==
    <<"transcribe_audio">>
    \o (IF t_ok
        THEN <<"add_message", "generate_response", "generate_speech">>
             \o (IF s_ok THEN <<"play_audio">> ELSE <<>>)
        ELSE <<>>)

(* the calls one turn makes after the recording was saved, given what    *)
(* transcribe_audio, generate_response and generate_speech return when   *)
(* they are called                                                        *)
pipeline_calls(t_ok, r_ok, s_ok) ==
    <<"transcribe_audio">>
    \o (IF t_ok
        THEN <<"add_message", "generate_response">>
             \o (IF r_ok
                 THEN <<"generate_speech">>
                      \o (IF s_ok THEN <<"play_audio">> ELSE <<>>)
                 ELSE <<>>)
        ELSE <<>>)

RecordFrame == UNCHANGED <<variant, phase, ws, sock, button_was_down, space_held,
                           recording, t0, now, nframes, clientVars, playerVars,
                           pi_threads, apiVars, managerVars, reasserted>>

(* what start() and stop() of the audio input classes never touch *)
InputFrame == UNCHANGED <<variant, phase, ws, button, button_was_down, space_held,
                          t0, now, clientVars, playerVars, piPlayVars,
                          playback_process, messages, orphans, managerVars,
                          reasserted>>

(* GPIO.input(BUTTON_PIN) changes level *)
MainButton ==
    /\ variant = "main"
    /\ button \/ episode < MaxEpisodes
    /\ button' = ~button
    /\ UNCHANGED <<stream, episode, log, speaker, recordVars>>
    /\ RecordFrame

(* the aplay process ends on its own *)
AplayExits ==
    /\ variant = "main"
    /\ playback_process = "running"
    /\ playback_process' = "exited"
    /\ UNCHANGED <<button, stream, episode, log, speaker, frames, saved, messages>>
    /\ RecordFrame

(* an iteration with the button down *)
MainLoopDown ==
    /\ variant = "main"
    /\ button
    /\ stream = "none" \/ Len(frames) < MaxFrames
    /\ LET st0 == stop_audio_playback(Playback(playback_process, speaker))
           st1 == playback_finished(st0)
           start == stream = "none"
           ep == IF start THEN episode + 1 ELSE episode
           rec == IF start THEN new_recording(frames) ELSE frames
       IN /\ stream' = "active"
          /\ episode' = ep
          /\ frames' = Append(rec, ep)
          /\ playback_process' = st1.pp
          /\ speaker' = st1.spk
    /\ UNCHANGED <<button, log, saved, messages>>
    /\ RecordFrame

(* an iteration with the button up *)
MainLoopUp ==
    /\ variant = "main"
    /\ ~button
    /\ IF stream = "active" /\ frames = <<>>
       THEN /\ stream' = "none"
            /\ UNCHANGED <<saved, messages, playback_process, speaker>>
       ELSE IF stream = "active"
       THEN \E drip, spoken, drip_done \in BOOLEAN, outcome \in TurnOutcomes,
               first, retry \in ResponseResults :
              LET st0 == Playback(playback_process, speaker)
                  st1 == main_play_audio(st0, drip)
                  st2 == IF drip_done /\ st1.pp = "running"
                         THEN Playback("exited", st1.spk) ELSE st1
                  response == generate_response(Append(messages, "user"),
                                                first, retry)
                  calls == pipeline_calls(outcome # "no_transcription",
                                          response.result = "text",
                                          outcome = "played")
                  st3 == IF Last(calls) = "play_audio"
                         THEN main_play_audio(st2, spoken)
                         ELSE st2
                  st4 == playback_finished(st3)
              IN /\ outcome # "no_transcription" =>
                      (response.result = "text" <=> outcome # "no_response")
                 /\ stream' = "none"
                 /\ saved' = Append(saved, [ep |-> episode, audio |-> frames,
                                            sent |-> FALSE, outcome |-> outcome,
                                            calls |-> calls])
                 /\ messages' =
                      IF outcome = "no_transcription" THEN messages
                      ELSE response.messages
                 /\ playback_process' = st4.pp
                 /\ speaker' = st4.spk
       ELSE LET st4 == playback_finished(Playback(playback_process, speaker))
            IN /\ playback_process' = st4.pp
               /\ speaker' = st4.spk
               /\ UNCHANGED <<stream, saved, messages>>
    /\ UNCHANGED <<button, episode, log, frames>>
    /\ RecordFrame

----------------------------------------------------------------------------
(* audio_input.py BufferedAudioInput: start and stop are called by the    *)
(* owner, the callback by the capture stream.                              *)

(* Mutation: start() does not see that a stream is open. *)
stream_started_unseen == FALSE

(* if self.stream is not None *)
stream_started == stream = "active"

(* start() *)
buffered_start ==
    /\ variant = "buffered"
    /\ IF stream_started
       THEN UNCHANGED <<stream, episode, frames>>
       ELSE /\ episode < MaxEpisodes
            /\ frames' = <<>>
            /\ stream' = "active"
            /\ episode' = episode + 1
    /\ api_call' = Called("start", FALSE)
    /\ UNCHANGED <<sock, log, saved, recording, nframes>>
    /\ InputFrame

(* _callback(indata, ...) *)
buffered_callback ==
    /\ variant = "buffered"
    /\ stream = "active"
    /\ Len(frames) < MaxFrames
    /\ frames' = Append(frames, episode)
    /\ UNCHANGED <<button, stream, episode, log, speaker, saved, playback_process,
                   messages>>
    /\ RecordFrame

(* stop(), with _send(): the audio is saved and played back, then handed  *)
(* to client.send_full_audio; RealtimeClient defines no such method, so   *)
(* the call raises unless the client given at construction provides it.   *)
(* frames is reset only after create_response.                            *)
buffered_stop ==
    /\ variant = "buffered"
    /\ IF stream # "active" \/ frames = <<>>
       THEN /\ stream' = "none"
            /\ UNCHANGED <<log, frames, saved>>
       ELSE \E sent \in BOOLEAN :
              /\ stream' = "none"
              /\ saved' = Append(saved, [ep |-> episode, audio |-> frames,
                                         sent |-> sent,
                                         outcome |-> IF sent THEN "sent"
                                                     ELSE "send_failed",
                                         calls |-> <<>>])
              /\ IF sent
                 THEN /\ log' = create_response(log, sock, episode).log
                      /\ frames' = <<>>
                 ELSE UNCHANGED <<log, frames>>
    /\ api_call' = Called("stop", FALSE)
    /\ UNCHANGED <<sock, episode, recording, nframes>>
    /\ InputFrame

----------------------------------------------------------------------------
(* audio_input.py StreamingAudioInput; `recording` stands for its running *)
(* flag.                                                                   *)

(* start() *)
streaming_start ==
    /\ variant = "streaming"
    /\ IF stream_started
       THEN UNCHANGED <<stream, episode, recording, nframes>>
       ELSE /\ episode < MaxEpisodes
            /\ stream' = "active"
            /\ recording' = TRUE
            /\ episode' = episode + 1
            /\ nframes' = 0
    /\ api_call' = Called("start", FALSE)
    /\ UNCHANGED <<sock, log, frames, saved>>
    /\ InputFrame

(* _callback(indata, ...) *)
streaming_callback ==
    /\ variant = "streaming"
    /\ stream = "active"
    /\ nframes < MaxFrames
    /\ nframes' = nframes + 1
    /\ log' = IF has_is_connected /\ is_connected
              THEN append_audio_buffer(log, sock, episode).log ELSE log
    /\ UNCHANGED <<sock, stream, episode, recording, frames, saved, api_call>>
    /\ InputFrame

(* stop(), with _send(): commit_audio_buffer and create_response *)
streaming_stop ==
    /\ variant = "streaming"
    /\ IF stream_started
       THEN /\ stream' = "none"
            /\ recording' = FALSE
            /\ \E s2 \in {sock} \cup SockSucc(sock) :
                 /\ sock' = s2
                 /\ log' = create_response(
                             commit_audio_buffer(log, sock, episode).log,
                             s2, episode).log
       ELSE UNCHANGED <<stream, recording, sock, log>>
    /\ api_call' = Called("stop", FALSE)
    /\ UNCHANGED <<episode, nframes, frames, saved>>
    /\ InputFrame

(* An audio input object just constructed on a client whose connection   *)
(* is open or lost; start and stop are called at any time.                *)
InputSpecInit ==
    /\ variant \in {"streaming", "buffered"}
    /\ phase = "running"
    /\ ws = "app"
    /\ sock \in {"open", "closed"}
    /\ button = FALSE
    /\ button_was_down = FALSE
    /\ space_held = FALSE
    /\ recording = FALSE
    /\ stream = "none"
    /\ t0 = 0
    /\ now = 1
    /\ episode = 0
    /\ nframes = 0
    /\ log = <<>>
    /\ reasserted = FALSE
    /\ input_modality = "audio"
    /\ output_modality = "audio"
    /\ audio_playback_func = "none"
    /\ ClientInit

InputNext ==
    \/ SockChange
    \/ streaming_start
    \/ streaming_callback
    \/ streaming_stop
    \/ buffered_start
    \/ buffered_callback
    \/ buffered_stop

SpecInput == InputSpecInit /\ [][InputNext]_vars

(* main.py after its start-up sound was launched, or a BufferedAudioInput *)
(* just constructed on a client whose connection is open or lost           *)
RecordSpecInit ==
    /\ variant \in {"main", "buffered"}
    /\ phase = "running"
    /\ ws = IF variant = "buffered" THEN "app" ELSE "none"
    /\ sock \in IF variant = "buffered" THEN {"open", "closed"} ELSE {"none"}
    /\ button = FALSE
    /\ button_was_down = FALSE
    /\ space_held = FALSE
    /\ recording = FALSE
    /\ stream = "none"
    /\ t0 = 0
    /\ now = 1
    /\ episode = 0
    /\ nframes = 0
    /\ log = <<>>
    /\ reasserted = FALSE
    /\ input_modality = "audio"
    /\ output_modality = "audio"
    /\ audio_playback_func = "none"
    /\ audio_queue = <<>>
    /\ is_playing = FALSE
    /\ worker = "none"
    /\ worker_item = 0
    /\ played = <<>>
    /\ play_pc = "idle"
    /\ stop_pc = "idle"
    /\ stop_mark = 0
    /\ n_payloads = 0
    /\ pi_threads = <<>>
    /\ audio_buffer = <<>>
    /\ inbound = <<>>
    /\ received = <<>>
    /\ surfaced = <<>>
    /\ playback_calls = <<>>
    /\ raised = FALSE
    /\ frames = <<>>
    /\ saved = <<>>
    /\ messages = <<"system">>
    /\ ApiInit
    /\ ManagerInit
    /\ playback_process \in IF variant = "main" THEN {"running", "none"} ELSE {"none"}
    /\ speaker = (playback_process = "running")

RecordNext ==
    \/ MainButton
    \/ AplayExits
    \/ MainLoopDown
    \/ MainLoopUp
    \/ buffered_start
    \/ buffered_callback
    \/ buffered_stop

SpecRecord == RecordSpecInit /\ [][RecordNext]_vars

----------------------------------------------------------------------------
(* The three turn controllers side by side: pi-realtime, mac-realtime    *)
(* and main.py (and BufferedAudioInput), each from its own start.        *)

TurnsInit == Init \/ RecordSpecInit

TurnsNext ==
    \/ connect_websocket
    \/ SockChange
    \/ Tick
    \/ record_and_stream_cb
    \/ MacKeyDown
    \/ MacKeyRepeat
    \/ MacKeyUp
    \/ pi_callback
    \/ PiButton
    \/ PiLoop
    \/ MainButton
    \/ AplayExits
    \/ MainLoopDown
    \/ MainLoopUp
    \/ buffered_start
    \/ buffered_callback
    \/ buffered_stop

SpecTurns == TurnsInit /\ [][TurnsNext]_vars

----------------------------------------------------------------------------
(* Vocabulary of the turn-controller claims *)

Held == IF variant = "pi" THEN button_was_down ELSE space_held

PressStep == ~Held /\ Held'

ReleaseStep == Held /\ ~Held'

HoldDuration == now - t0

ConnectionOpen == ws # "none" /\ sock = "open"

LastTypes(l, n) == [i \in 1..n |-> l[Len(l) - n + i].type]

(* The remote input buffer, replayed from the wire: TRUE iff some commit  *)
(* finalizes audio appended by another episode than its own.              *)
RECURSIVE StaleCommit(_, _)
StaleCommit(w, buf) ==
    IF w = <<>> THEN FALSE
    ELSE LET e == Head(w) IN
         CASE e.type = "input_audio_buffer.clear" -> StaleCommit(Tail(w), {})
           [] e.type = "input_audio_buffer.append" -> StaleCommit(Tail(w), buf \cup {e.ep})
           [] e.type = "input_audio_buffer.commit" ->
                (buf \ {e.ep} # {}) \/ StaleCommit(Tail(w), {})
           [] OTHER -> StaleCommit(Tail(w), buf)

C2_ShortHoldDiscarded ==
    [][(ReleaseStep /\ HoldDuration < MIN_HOLD)
        => /\ stream' # "active"
           /\ log' = Append(log, Ev("capture.stop", episode))]_vars

C2_Witness ==
    /\ ~Held /\ episode >= 1 /\ HoldDuration < MIN_HOLD
    /\ ConnectionOpen
    /\ stream # "active"
    /\ log[Len(log)].type = "capture.stop"
    /\ \E i \in 1..Len(log) : log[i] = Ev("input_audio_buffer.append", episode)

(* C3: a press sends clear before capture starts and before any append of *)
(* the new episode, and no commit on the wire finalizes audio appended by *)
(* an earlier episode.                                                     *)
C3_ClearBeforeCapture ==
    /\ [](~StaleCommit(Wire(log), {}))
    /\ [](\A i, j \in 1..Len(log) :
            (i < j /\ log[i].type = "input_audio_buffer.append"
                   /\ log[j].type \in {"input_audio_buffer.clear", "capture.start"})
              => log[i].ep < log[j].ep)
    /\ [][PressStep =>
            /\ stream' = "active" /\ nframes' = 0
            /\ IF ConnectionOpen
               THEN log' = log \o <<Ev("input_audio_buffer.clear", episode'),
                                    Ev("capture.start", episode')>>
               ELSE log' = Append(log, Ev("capture.start", episode'))]_vars

C3_Witness ==
    \E i, j, k, m \in 1..Len(log) :
        /\ i < j /\ j < k /\ k < m
        /\ log[i] = Ev("input_audio_buffer.append", 1)
        /\ log[j] = Ev("input_audio_buffer.clear", 2)
        /\ log[k] = Ev("input_audio_buffer.append", 2)
        /\ log[m] = Ev("input_audio_buffer.commit", 2)
        /\ \A n \in 1..Len(log) : log[n] # Ev("input_audio_buffer.commit", 1)

----------------------------------------------------------------------------
(* Vocabulary of the inbound-event claims *)

IsKnown(e) == e.type \in KnownTypes

HandledStep == received' # received

(* A turn ends with response.done or with an error event: TRUE iff an     *)
(* audio delta was received after the last such event of history h.       *)
DeltaInCurrentTurn(h) ==
    \E i \in 1..Len(h) :
        /\ h[i].type = "response.audio.delta"
        /\ \A j \in (i + 1)..Len(h) : h[j].type \notin {"response.done", "error"}

(* C7: the playback function is invoked only at the response.done of a    *)
(* turn that received at least one audio delta.                            *)
C7_PlaybackNeedsDelta ==
    [][playback_calls' # playback_calls => DeltaInCurrentTurn(received)]_vars

(* The response audio buffer expected after a history of events *)
RECURSIVE ExpectedAudio(_)
ExpectedAudio(h) ==
    IF h = <<>> THEN <<>>
    ELSE LET prev == ExpectedAudio(Front(h))
             e == Last(h)
         IN  IF /\ e.type = "response.audio.delta" /\ output_modality = "audio"
                /\ e.delta \in {"c1", "c2"}
             THEN Append(prev, e.delta)
             ELSE IF /\ e.type = "response.done" /\ output_modality = "audio"
                     /\ prev # <<>> /\ audio_playback_func # "none"
                  THEN <<>>
                  ELSE prev

(* C8: handling an event of unknown kind raises nothing, sends nothing,   *)
(* triggers no playback and leaves the response audio buffer and the      *)
(* connection handle unchanged; the buffer is always what the known       *)
(* events of the stream alone produce, so a response.done after unknown   *)
(* events is handled as if they had not arrived.                          *)
C8_UnknownIgnored ==
    /\ [][(HandledStep /\ ~IsKnown(Last(received')))
            => /\ ~raised' /\ surfaced' = <<>>
               /\ UNCHANGED <<audio_buffer, playback_calls, ws, sock, log>>]_vars
    /\ [](audio_buffer = ExpectedAudio(SelectSeq(received, IsKnown)))

C8_Witness ==
    /\ Len(received) = 3
    /\ received[1] = InEv("response.audio.delta", "c1", <<>>)
    /\ ~IsKnown(received[2])
    /\ received[3] = InEv("response.done", "absent", TextOnlyOutput)
    /\ surfaced = <<"a">>
    /\ Len(playback_calls) = 1 /\ playback_calls[1].audio = <<"c1">>
    /\ audio_buffer = <<>>

AssistantMessages(output) ==
    {i \in 1..Len(output) : output[i].type = "message" /\ output[i].role = "assistant"}

ContentOfType(item, t) == {k \in 1..Len(item.content) : item.content[k].type = t}

(* The text of the first content item of type t of an item, "" if none *)
TextOfType(item, t) ==
    IF ContentOfType(item, t) = {} THEN ""
    ELSE item.content[Min(ContentOfType(item, t))].text

(* C9 as stated: what response.done surfaces is the text of the first     *)
(* output_text content item of the first assistant message item, and      *)
(* nothing if there is none.                                              *)
C9_FirstOutputText ==
    received # <<>> =>
        LET output == received[1].output
            A == AssistantMessages(output)
        IN  surfaced = IF A # {} /\ TextOfType(output[Min(A)], "output_text") # ""
                       THEN <<TextOfType(output[Min(A)], "output_text")>>
                       ELSE <<>>

(* C9 amended: response.done surfaces, for every assistant message item   *)
(* in order, the text of its first content item of type text when that    *)
(* text is not empty, and raises nothing.                                  *)
C9_FirstTextOfEachAssistantMessage ==
    received # <<>> =>
        LET output == received[1].output
            S == {i \in AssistantMessages(output) : TextOfType(output[i], "text") # ""}
        IN  /\ ~raised
            /\ Len(surfaced) = Cardinality(S)
            /\ \A i \in S :
                 surfaced[Cardinality({j \in S : j <= i})] = TextOfType(output[i], "text")

C9_Witness ==
    /\ received # <<>>
    /\ Len(received[1].output) = 2
    /\ AssistantMessages(received[1].output) = {1, 2}
    /\ received[1].output[1].content = <<[type |-> "output_text", text |-> "b"],
                                         [type |-> "text", text |-> "a"]>>
    /\ surfaced = <<"a", "a">>

----------------------------------------------------------------------------
(* Vocabulary of the playback claims *)

PlaybackActive ==
    \/ worker = "write"
    \/ \E i \in DOMAIN pi_threads : pi_threads[i] = "aplay"

(* C4: when the talk signal is asserted while a response is being played, *)
(* playback is stopped before capture starts: no press step ends with the *)
(* capture stream open and the playback still running.                    *)
C4_BargeInStopsPlayback ==
    [][(PressStep /\ PlaybackActive) => ~PlaybackActive']_vars

(* C5: with no play_audio or stop call in progress, a payload in the      *)
(* queue always has a live worker to play it.                             *)
C5_NeverStranded ==
    (play_pc = "idle" /\ stop_pc = "idle" /\ audio_queue # <<>>) => WorkerAlive

(* C6: when stop() returns, no worker is still writing a payload that was *)
(* enqueued before stop() was called.                                     *)
C6_StoppedOnReturn ==
    [][(stop_pc = "clear" /\ stop_pc' = "idle")
        => ~(worker' = "write" /\ worker_item' <= stop_mark')]_vars

----------------------------------------------------------------------------
(* Record-then-send accumulator *)

OwnFrames(audio, ep) == \A k \in 1..Len(audio) : audio[k] = ep

(* C10: in record-then-send mode the accumulator holds no frame of an     *)
(* earlier episode once capture has begun, and the audio saved or sent   *)
(* for a turn consists of frames captured during that turn only.         *)
C10_NoBleedBetweenTurns ==
    /\ stream = "active" => OwnFrames(frames, episode)
    /\ \A i \in 1..Len(saved) : OwnFrames(saved[i].audio, saved[i].ep)

(* two consecutive turns that both recorded audio, the first of which    *)
(* left its frames in the accumulator                                     *)
C10_Witness ==
    /\ Len(saved) = 2
    /\ saved[1].ep = 1 /\ saved[1].audio # <<>> /\ ~saved[1].sent
    /\ saved[2].ep = 2 /\ saved[2].audio # <<>>

----------------------------------------------------------------------------
(* Connection loss while the talk signal is held *)

HasEvent(l, type, ep) == \E i \in 1..Len(l) : l[i].type = type /\ l[i].ep = ep

(* C11: when the connection has failed while the talk signal was held,    *)
(* the release still stops capture and leaves the controller idle and     *)
(* running; commit and response request fail without anything being sent, *)
(* nothing is sent later on the lost connection (no retry), and the next  *)
(* press starts a capture again.                                          *)
C11_ReleaseSurvivesConnectionLoss ==
    /\ [][(ReleaseStep /\ sock = "closed")
           => /\ Wire(log') = Wire(log)
              /\ stream' # "active"
              /\ stream = "active" => Last(log') = Ev("capture.stop", episode)
              /\ ~Held'
              /\ phase' = "running"]_vars
    /\ [][sock = "closed" => Wire(log') = Wire(log) /\ sock' = "closed"]_vars
    /\ [][(PressStep /\ sock = "closed")
           => stream' = "active" /\ Last(log') = Ev("capture.start", episode')]_vars

(* a hold longer than the threshold whose audio was being streamed, the   *)
(* connection lost before the release: capture is stopped, nothing was    *)
(* committed or requested                                                  *)
C11_Witness ==
    /\ ~Held /\ ~button
    /\ sock = "closed"
    /\ HoldDuration > MIN_HOLD
    /\ HasEvent(log, "input_audio_buffer.append", episode)
    /\ Last(log) = Ev("capture.stop", episode)
    /\ ~HasEvent(log, "input_audio_buffer.commit", episode)
    /\ ~HasEvent(log, "response.create", episode)

----------------------------------------------------------------------------
(* Outbound operations of RealtimeClient and the state of the connection *)

(* the owner made a call in this step *)
ApiStep == api_call'.n # api_call.n

OutboundStep == ApiStep /\ api_call'.op \in OutboundOps

C13_NoHandleNoSend ==
    [][(ws = "none" /\ ApiStep)
        => /\ ~api_call'.ok
           /\ log' = log
           /\ ws' = "none" /\ sock' = sock]_vars

(* send_audio_message called on an audio client after close_websocket,   *)
(* events having been sent before the close                               *)
C13_Witness ==
    /\ phase = "running" /\ ws = "none"
    /\ input_modality = "audio"
    /\ Wire(log) # <<>>
    /\ api_call.op = "send_audio_message" /\ ~api_call.ok

(* C14: send_text_message on a client whose input modality is audio, and *)
(* send_audio_message on one whose input modality is text, return False  *)
(* and send neither the message item nor a response request.             *)
C14_WrongModalityRejected ==
    [][(ApiStep /\ \/ api_call'.op = "send_text_message" /\ input_modality = "audio"
                   \/ api_call'.op = "send_audio_message" /\ input_modality = "text")
        => ~api_call'.ok /\ log' = log]_vars

(* send_text_message refused on an audio client whose connection is open *)
C14_Witness ==
    /\ ws = "app" /\ sock = "open"
    /\ input_modality = "audio"
    /\ api_call.op = "send_text_message" /\ ~api_call.ok

(* C15: every response.create sent requests text: ["text"] when the      *)
(* output modality is text, ["text", "audio"] when it is audio.          *)
C15_TextAlwaysRequested ==
    \A i \in 1..Len(log) :
        log[i].type = "response.create" => log[i].arg = DefaultModalities

----------------------------------------------------------------------------
(* start() and stop() of the audio input classes *)

(* C16: start() on an input that is already started opens no stream and  *)
(* changes nothing; stop() on one that is already stopped closes nothing *)
(* and sends nothing.                                                      *)
C16_StartStopIdempotent ==
    [][(ApiStep /\ \/ api_call'.op = "start" /\ stream = "active"
                   \/ api_call'.op = "stop" /\ stream # "active")
        => UNCHANGED <<stream, episode, recording, nframes, frames, saved, log,
                       sock, ws>>]_vars

(* an even number of calls of which exactly one opened a stream and none *)
(* closed one: the other call was made on an input already in that state *)
C16_Witness ==
    /\ api_call.op = "start" /\ api_call.n = 0
    /\ episode = 1 /\ stream = "active"

----------------------------------------------------------------------------
(* The speaker gate and the output device *)

(* aplay processes launched by play_pcm16_audio that are still running *)
AplayRunning == {i \in DOMAIN pi_threads : pi_threads[i] = "aplay"}

(* C17: the speaker gate is enabled exactly while a playback is in       *)
(* progress; in particular it is never disabled while a playback is      *)
(* still producing audio.                                                 *)
C17_GateFollowsPlayback ==
    variant = "pi" => (speaker <=> AplayRunning # {})

(* C18: at most one playback operation is active on the output device.   *)
C18_OnePlaybackAtATime ==
    Cardinality(AplayRunning) + (IF worker = "write" THEN 1 ELSE 0) <= 1

----------------------------------------------------------------------------
(* The talk signal asserted again during a hold *)

(* C19: while the controller holds the talk signal and the signal stays  *)
(* asserted, a repeated assertion sends no clear event, opens no capture *)
(* stream and leaves the start timestamp alone.                           *)
C19_ReassertionIsNoOp ==
    [][(Held /\ button /\ Held' /\ button')
        => /\ UNCHANGED <<t0, stream, episode>>
           /\ CountType(log', "input_audio_buffer.clear")
                = CountType(log, "input_audio_buffer.clear")
           /\ CountType(log', "capture.start") = CountType(log, "capture.start")]_vars

(* the signal was delivered again during a hold that is still going on,  *)
(* with the connection open                                               *)
C19_Witness ==
    /\ reasserted /\ Held /\ button
    /\ ConnectionOpen
    /\ stream = "active" /\ HoldDuration > 0

----------------------------------------------------------------------------
(* The response audio buffer after response.done *)

(* C20: once a response.done event has been handled by a client whose    *)
(* output modality is audio, the response audio buffer is empty.         *)
C20_BufferEmptyAfterDone ==
    [][(HandledStep /\ Last(received').type = "response.done"
          /\ output_modality = "audio")
        => audio_buffer' = <<>>]_vars

----------------------------------------------------------------------------
(* Failures during a turn *)

(* a release of pi-realtime or mac-realtime after a hold long enough,    *)
(* whose commit or response request did not go out                        *)
SendFailedStep ==
    /\ ReleaseStep /\ ShouldCommit
    /\ Wire(log') # Wire(log) \o <<Ev("input_audio_buffer.commit", episode),
                                     Ev("response.create", episode)>>

(* a turn of main.py recorded with transcription, response generation or *)
(* speech synthesis having failed                                         *)
PipelineFailedStep ==
    /\ variant = "main"
    /\ Len(saved') > Len(saved)
    /\ Last(saved').outcome \in {"no_transcription", "no_response", "no_speech"}

(* main.py takes the button as newly pressed *)
MainPressStep ==
    /\ variant = "main" /\ button /\ stream # "active"
    /\ <<stream, frames, episode>>' # <<stream, frames, episode>>

(* C21: after a failure during a turn the controller is idle with no     *)
(* capture stream open and still running, and the next assertion of the *)
(* talk signal starts a new capture episode.                              *)
C21_IdleAfterFailure ==
    /\ [][SendFailedStep => stream' # "active" /\ ~Held' /\ phase' = "running"]_vars
    /\ [][PipelineFailedStep => stream' = "none" /\ phase' = "running"]_vars
    /\ [][(PressStep \/ MainPressStep)
           => stream' = "active" /\ episode' = episode + 1]_vars

(* main.py recording again after a turn whose transcription failed *)
C21_Witness ==
    /\ variant = "main"
    /\ Len(saved) = 1 /\ saved[1].outcome = "no_transcription"
    /\ episode = 2 /\ stream = "active"

----------------------------------------------------------------------------
(* Sessions of one client *)

(* C22: at most one session of a RealtimeClient is live at any time: no  *)
(* connection made earlier is open besides the one the client holds.     *)
C22_OneLiveSession == orphans = 0

----------------------------------------------------------------------------
(* Audio on the wire *)

(* C23: every input_audio_buffer.commit on the wire is preceded by an    *)
(* append of the same capture episode: no commit is sent for an episode  *)
(* in which no frame was appended.                                        *)
C23_CommitHasAudio ==
    \A i \in 1..Len(Wire(log)) :
      Wire(log)[i].type = "input_audio_buffer.commit"
        => \E j \in 1..(i - 1) :
             /\ Wire(log)[j].type = "input_audio_buffer.append"
             /\ Wire(log)[j].ep = Wire(log)[i].ep

(* positions of the events of one type and episode in a log *)
Positions(l, type, ep) == {i \in 1..Len(l) : l[i].type = type /\ l[i].ep = ep}

(* C24: on a committed release the capture is stopped before the commit  *)
(* is sent, and no append of an episode is sent after that episode's     *)
(* commit.                                                                *)
C24_NoAppendAfterCommit ==
    \A ep \in 1..MaxEpisodes :
      \A c \in Positions(log, "input_audio_buffer.commit", ep) :
        /\ \E p \in Positions(log, "capture.stop", ep) : p < c
        /\ \A a \in Positions(log, "input_audio_buffer.append", ep) : a < c

(* an episode appended and committed, and frames of the next one on the wire *)
C24_Witness ==
    /\ Positions(log, "input_audio_buffer.append", 1) # {}
    /\ Positions(log, "input_audio_buffer.commit", 1) # {}
    /\ Positions(log, "input_audio_buffer.append", 2) # {}

(* the capture callback has been handed a frame *)
FrameStep == nframes' = nframes + 1

(* C25: while capture is active and the client holds a connection, every *)
(* frame delivered to the capture callback results in exactly one        *)
(* input_audio_buffer.append event, sent after those of earlier frames.  *)
C25_EveryFrameAppended ==
    [][(FrameStep /\ stream = "active" /\ ConnectionOpen /\ variant # "buffered")
        => log' = Append(log, Ev("input_audio_buffer.append", episode))]_vars

----------------------------------------------------------------------------
(* Response audio *)

(* the payloads that decode to audio among the deltas received after the *)
(* latest response.done, in arrival order                                 *)
RECURSIVE DeltasSinceDone(_)
DeltasSinceDone(evs) ==
    IF evs = <<>> THEN <<>>
    ELSE LET e == Last(evs)
         IN IF e.type = "response.done" THEN <<>>
            ELSE IF e.type = "response.audio.delta"
                    /\ e.delta \notin {"", "badpad", "absent"}
                 THEN Append(DeltasSinceDone(Front(evs)), e.delta)
                 ELSE DeltasSinceDone(Front(evs))

DoneStep == Len(received') > Len(received) /\ Last(received').type = "response.done"

(* C26: with output modality audio and a playback function, a            *)
(* response.done hands to playback at most one payload, and that payload *)
(* is the decoded audio of exactly the deltas received since the         *)
(* previous response.done, in arrival order.                              *)
C26_PayloadIsDeltasSinceDone ==
    [][(DoneStep /\ output_modality = "audio" /\ audio_playback_func = "func")
        => /\ Len(playback_calls') <= Len(playback_calls) + 1
           /\ Len(playback_calls') > Len(playback_calls)
                => Last(playback_calls').audio = DeltasSinceDone(received)
           /\ DeltasSinceDone(received) # <<>>
                => Len(playback_calls') = Len(playback_calls) + 1]_vars

(* two deltas handed over as one payload, in the order they arrived *)
C26_Witness ==
    /\ Len(playback_calls) = 1
    /\ playback_calls[1].audio = <<"c2", "c1">>

ErrorStep == Len(received') > Len(received) /\ Last(received').type = "error"

(* C27: handling an inbound error event leaves the connection as it is,  *)
(* triggers no playback, and discards the audio accumulated for the turn. *)
C27_ErrorAbortsTurn ==
    [][ErrorStep => /\ ws' = ws /\ sock' = sock
                    /\ ~raised'
                    /\ playback_calls' = playback_calls
                    /\ audio_buffer' = <<>>]_vars

(* a known event kind arrives without a field its branch reads *)
MalformedStep ==
    /\ Len(received') > Len(received)
    /\ Last(received').type = "response.audio.delta"
    /\ Last(received').delta = "absent"

(* C28: a malformed inbound message is dropped: handling it raises       *)
(* nothing out of the message callback (default_on_message catches       *)
(* json.JSONDecodeError only, so whatever handle_event raises leaves the *)
(* callback), and the connection and the client's state stay as they are. *)
C28_MalformedDropped ==
    [][MalformedStep => /\ ~raised'
                        /\ ws' = ws /\ sock' = sock
                        /\ UNCHANGED <<audio_buffer, playback_calls>>]_vars

----------------------------------------------------------------------------
(* Capture streams *)

(* input streams started and not stopped, counted from the effect log *)
OpenStreams == CountType(log, "capture.start") - CountType(log, "capture.stop")

(* C29: at most one capture stream is open at any time in each turn      *)
(* controller, and a new capture episode is started only when no capture *)
(* stream is open.                                                        *)
C29_OneCaptureStream ==
    /\ [](variant \in {"pi", "mac"}
           => OpenStreams = IF stream = "active" THEN 1 ELSE 0)
    /\ [][episode' # episode
           => stream # "active" /\ stream' = "active" /\ episode' = episode + 1]_vars

(* a second episode capturing after the first one was closed *)
C29_Witness ==
    /\ variant = "pi"
    /\ episode = 2 /\ stream = "active" /\ nframes > 0
    /\ CountType(log, "capture.stop") = 1

----------------------------------------------------------------------------
(* Playback and the receive loop *)

(* a response.done whose audio was handed to the playback function *)
HandOffStep == DoneStep /\ Len(playback_calls') > Len(playback_calls)

(* C30: handling response.done does not keep the receive loop for the    *)
(* duration of playback: the playback function only hands the payload to *)
(* its own thread, the steps it takes in the receive loop never wait for *)
(* the player, and a playback in progress disables no dispatch.           *)
C30_HandOffDoesNotBlock ==
    /\ [][HandOffStep
           => /\ played' = played
              /\ variant = "mac"
                   => /\ Last(audio_queue') = n_payloads'
                      /\ UNCHANGED <<worker, worker_item, is_playing>>
              /\ variant = "pi"
                   => pi_threads' = Append(pi_threads, "prep") /\ speaker' = speaker]_vars
    /\ [](play_pc = "check" => ENABLED play_audio_check)
    /\ [](play_pc = "start" => ENABLED start_playback_thread)
    /\ []((/\ variant \in {"pi", "mac"} /\ ConnectionOpen /\ play_pc = "idle"
            /\ Responding /\ Len(received) < MaxResponseEvents)
           => ENABLED ReceiveResponse)

(* the audio of a second response was handed over before any of the      *)
(* first had been played to its end                                       *)
C30_Witness ==
    /\ Len(playback_calls) = 2
    /\ \/ variant = "mac" /\ played = <<>> /\ play_pc = "idle"
       \/ variant = "pi" /\ pi_threads = <<"aplay", "prep">>

----------------------------------------------------------------------------
(* Stopping a player that plays nothing *)

(* C31: stop called while no playback is active is a no-op: main.py      *)
(* stop_audio_playback leaves the playback handle and the speaker gate   *)
(* as they are, and MacAudioPlayer.stop touches neither the queue nor    *)
(* the worker nor what was played and never leaves a payload that is     *)
(* enqueued later without a worker to play it.                            *)
C31_IdleStopIsNoOp ==
    /\ [](\A pp \in {"none", "exited"}, spk \in BOOLEAN :
            stop_audio_playback(Playback(pp, spk)) = Playback(pp, spk))
    /\ [][(stop_pc = "idle" /\ stop_pc' # "idle")
           => UNCHANGED <<audio_queue, worker, worker_item, played, play_pc>>]_vars
    /\ []((play_pc = "idle" /\ stop_pc = "idle" /\ audio_queue # <<>>) => WorkerAlive)

----------------------------------------------------------------------------
(* Output modality text *)

(* C32: with output modality text no sequence of inbound events changes  *)
(* the response audio buffer, which stays empty, and the playback        *)
(* function is never invoked.                                             *)
C32_TextOutputNoAudio ==
    output_modality = "text" => audio_buffer = <<>> /\ playback_calls = <<>>

(* a decodable delta and a response.done were handled with output text *)
C32_Witness ==
    /\ output_modality = "text" /\ audio_playback_func = "func"
    /\ Len(received) = 2
    /\ received[1].type = "response.audio.delta" /\ received[1].delta = "c1"
    /\ received[2].type = "response.done"

----------------------------------------------------------------------------
(* BufferedAudioInput.stop *)

(* C33: after stop() of a started BufferedAudioInput has returned or     *)
(* failed, the capture device is closed and the frame accumulator is     *)
(* empty.                                                                 *)
C33_StopClearsFrames ==
    [][(variant = "buffered" /\ ApiStep /\ api_call'.op = "stop" /\ stream = "active")
        => stream' = "none" /\ frames' = <<>>]_vars

----------------------------------------------------------------------------
(* Every payload is played *)

(* the payload the worker was writing when it ended on an exception *)
FailedPayload(p) == worker = "exited" /\ worker_item = p

(* C34: as long as stop() is not called, every payload passed to         *)
(* play_audio is eventually played unless its own playback raised;       *)
(* payloads enqueued after a worker ended on an error included.           *)
C34_EventuallyPlayed ==
    [](stop_pc = "idle")
      => \A p \in 1..MaxPayloads :
           (n_payloads >= p)
             ~> (\/ \E i \in DOMAIN played : played[i] = p
                 \/ FailedPayload(p))

----------------------------------------------------------------------------
(* send_text_message *)

SendTextStep == ApiStep /\ api_call'.op = "send_text_message"

(* C35: send_text_message returns True only if conversation.item.create  *)
(* and then response.create were both sent; when it returns False        *)
(* because of the modality or a missing connection, nothing was sent.    *)
C35_TrueMeansBothSent ==
    /\ [][(SendTextStep /\ api_call'.ok)
           => LastTypes(Wire(log'), Len(Wire(log')) - Len(Wire(log)))
                = <<"conversation.item.create", "response.create">>]_vars
    /\ [][(SendTextStep /\ (ws = "none" \/ input_modality # "text"))
           => ~api_call'.ok /\ log' = log]_vars

----------------------------------------------------------------------------
(* Deltas that carry no audio *)

BadDeltaStep ==
    /\ Len(received') > Len(received)
    /\ Last(received').type = "response.audio.delta"
    /\ Last(received').delta \in {"", "badpad"}

(* C36: a response.audio.delta whose payload is empty or fails base64    *)
(* decoding leaves the response audio buffer unchanged and raises        *)
(* nothing, and the buffer keeps the deltas received before it and takes *)
(* those received after it.                                               *)
C36_BadDeltaSkipped ==
    /\ [][BadDeltaStep => /\ audio_buffer' = audio_buffer
                           /\ ~raised'
                           /\ playback_calls' = playback_calls]_vars
    /\ []((output_modality = "audio" /\ audio_playback_func = "func")
           => audio_buffer = DeltasSinceDone(received))

(* an undecodable delta between two good ones *)
C36_Witness ==
    /\ Len(received) = 3
    /\ received[2].type = "response.audio.delta" /\ received[2].delta = "badpad"
    /\ audio_buffer = <<"c1", "c2">>

----------------------------------------------------------------------------
(* a step of the main.py loop that ends a recording and runs the pipeline *)
PipelineStep ==
    /\ variant = "main"
    /\ Len(saved') = Len(saved) + 1

IsPrefixOf(a, b) ==
    /\ Len(a) <= Len(b)
    /\ \A i \in DOMAIN a : a[i] = b[i]

FullPipeline ==
    <<"transcribe_audio", "add_message", "generate_response", "generate_speech",
      "play_audio">>

(* C37: in the record-then-send loop of main.py the response audio is      *)
(* played only when transcription, response generation and speech          *)
(* synthesis all succeeded, in that order; a failure at a stage ends the   *)
(* turn with no later stage run and no response audio, and the user        *)
(* message is added to the conversation only when transcription succeeded. *)
C37_PlayOnlyAfterAllStages ==
    [][PipelineStep =>
         LET turn == Last(saved')
             played_response == \E i \in DOMAIN turn.calls : turn.calls[i] = "play_audio"
         IN /\ IsPrefixOf(turn.calls, FullPipeline)
            /\ played_response <=> turn.outcome = "played"
            /\ played_response => turn.calls = FullPipeline
            /\ turn.outcome = "no_transcription" =>
                  /\ turn.calls = <<"transcribe_audio">>
                  /\ messages' = messages
            /\ turn.outcome = "no_response" =>
                  turn.calls = SubSeq(FullPipeline, 1, 3)
            /\ turn.outcome = "no_speech" =>
                  turn.calls = SubSeq(FullPipeline, 1, 4)
            /\ turn.outcome # "no_transcription" =>
                  /\ Len(messages') > Len(messages)
                  /\ messages'[Len(messages) + 1] = "user"
            /\ ~played_response /\ playback_process = "none" /\ ~speaker =>
                  \/ playback_process' = "none" /\ ~speaker'
                  \/ playback_process' = "running" /\ speaker'
    ]_vars

C37_Witness ==
    /\ variant = "main"
    /\ Len(saved) >= 2
    /\ saved[1].outcome = "no_response"
    /\ saved[2].outcome = "played"
    /\ messages = <<"system", "user", "user", "assistant">>
    /\ playback_process = "running"

(* a step in which the main.py loop called generate_response *)
GenerateResponseStep ==
    /\ PipelineStep
    /\ \E i \in DOMAIN Last(saved').calls : Last(saved').calls[i] = "generate_response"

(* C38: generate_response never raises; on success it appends exactly one *)
(* assistant message to the history and returns its text, on any failure   *)
(* it returns None and leaves the history unchanged; the history is        *)
(* append-only and its first entry is always the system prompt.            *)
C38_FailureLeavesHistory ==
    [][/\ GenerateResponseStep =>
            LET history == Append(messages, "user")
                CountRole(msgs, role) ==
                    Cardinality({i \in DOMAIN msgs : msgs[i] = role})
            IN IF Last(saved').outcome = "no_response"
               THEN messages' = history
               ELSE /\ IsPrefixOf(history, messages')
                    /\ Last(messages') = "assistant"
                    /\ CountRole(messages', "assistant")
                         = CountRole(history, "assistant") + 1
       /\ IsPrefixOf(messages, messages')
       /\ messages'[1] = "system"
    ]_vars

----------------------------------------------------------------------------
(* realtime.py RealtimeManager.  Each method is one step; what the remote *)
(* service does with a call is chosen freely.                              *)

MaxRemoteCalls == 4

(* what the methods of RealtimeManager never touch *)
ManagerFrame == UNCHANGED <<pttVars, clientVars, playerVars, piPlayVars,
                            recordVars, orphans, reasserted>>

(* return self.is_connected and self.session is not None *)
is_session_active == rm_is_connected /\ session # 0

(* create_session: created is whether realtime_sessions.create returned   *)
(* an object, has_id whether reading its id succeeded                      *)
create_session ==
    /\ variant = "manager"
    /\ Len(remote_calls) < MaxRemoteCalls
    /\ \E created, has_id \in BOOLEAN :
         LET new == 1 + Cardinality({i \in DOMAIN remote_calls :
                                       /\ remote_calls[i].op = "create"
                                       /\ remote_calls[i].ok})
         IN /\ remote_calls' = Append(remote_calls,
                                      [op |-> "create", ok |-> created])
            /\ session' = IF created THEN new ELSE session
            /\ IF created /\ has_id
               THEN /\ session_id' = new
                    /\ rm_is_connected' = TRUE
               ELSE UNCHANGED <<session_id, rm_is_connected>>
            /\ api_call' = Called("create_session", created /\ has_id)
    /\ ManagerFrame

(* get_response: the result is True when a text is returned, False when   *)
(* None is                                                                 *)
get_response ==
    /\ variant = "manager"
    /\ IF ~rm_is_connected \/ session = 0
       THEN /\ api_call' = Called("get_response", FALSE)
            /\ UNCHANGED remote_calls
       ELSE /\ Len(remote_calls) < MaxRemoteCalls
            /\ \E sent, has_text \in BOOLEAN :
                 /\ remote_calls' = Append(remote_calls,
                                           [op |-> "send_message", ok |-> sent])
                 /\ api_call' = Called("get_response", sent /\ has_text)
    /\ UNCHANGED <<session, session_id, rm_is_connected>>
    /\ ManagerFrame

(* Mutation: the field is reset whether or not session.close() raised. *)
after_close_always_reset(field, closed) == 0

(* self.session = None, self.session_id = None: reached only when         *)
(* self.session.close() returned                                           *)
after_close(field, closed) == IF closed THEN 0 ELSE field

close_session ==
    /\ variant = "manager"
    /\ IF session = 0
       THEN /\ api_call' = Called("close_session", TRUE)
            /\ UNCHANGED managerVars
       ELSE /\ Len(remote_calls) < MaxRemoteCalls
            /\ \E closed \in BOOLEAN :
                 /\ remote_calls' = Append(remote_calls,
                                           [op |-> "close", ok |-> closed])
                 /\ session' = after_close(session, closed)
                 /\ session_id' = after_close(session_id, closed)
                 /\ rm_is_connected' = (rm_is_connected /\ ~closed)
                 /\ api_call' = Called("close_session", closed)
    /\ ManagerFrame

(* RealtimeManager() alone: nothing of the other programs is running *)
ManagerSpecInit ==
    /\ variant = "manager"
    /\ PttInit
    /\ input_modality = "audio"
    /\ output_modality = "audio"
    /\ audio_playback_func = "func"
    /\ ClientInit

ManagerNext ==
    \/ create_session
    \/ get_response
    \/ close_session

SpecManager == ManagerSpecInit /\ [][ManagerNext]_vars

(* C39: is_session_active() is true exactly from a successful             *)
(* create_session() until the next successful close_session(): a failed   *)
(* create leaves it false, a failed close leaves it true with the session *)
(* retained, get_response without an active session returns None without  *)
(* contacting the remote, and close_session with no session returns True. *)
C39_ActiveFromCreateToClose ==
    [][LET op == api_call'.op
           ok == api_call'.ok
           active_after == rm_is_connected' /\ session' # 0
       IN /\ ~ApiStep => active_after = is_session_active
          /\ ApiStep /\ op = "create_session" /\ ok => active_after
          /\ ApiStep /\ op = "create_session" /\ ~ok =>
                active_after = is_session_active
          /\ ApiStep /\ op = "close_session" /\ ok => ~active_after
          /\ ApiStep /\ op = "close_session" /\ ~ok =>
                /\ active_after = is_session_active
                /\ session' = session
                /\ session # 0
          /\ ApiStep /\ op = "close_session" /\ session = 0 =>
                /\ ok
                /\ remote_calls' = remote_calls
          /\ ApiStep /\ op = "get_response" =>
                /\ active_after = is_session_active
                /\ ~is_session_active => ~ok /\ remote_calls' = remote_calls
    ]_vars

C39_Witness ==
    /\ is_session_active
    /\ api_call.op = "close_session"
    /\ ~api_call.ok
    /\ remote_calls = <<[op |-> "create", ok |-> FALSE],
                        [op |-> "create", ok |-> TRUE],
                        [op |-> "close", ok |-> FALSE]>>

====
